---------------------------- MODULE Spec2Model ----------------------------
(***************************************************************************)
(* Dispatch: the participant service (dispatch/participant/service.py) and *)
(* the message template renderer (dispatch/messaging/strings.py).          *)
(*                                                                         *)
(* Spec       : the participant service, one call at a time.               *)
(* SpecRace   : two callers of get_or_create, interleaved at the query and *)
(*              the commit of each call.                                   *)
(* SpecRender : calls of render_message_template on a caller's template.   *)
(* SpecRepeat : repeated get_or_create calls for one (incident, individual).*)
(* SpecUpdate : create, update with every choice of fields, get, delete.    *)
(* SpecLookup : get_or_create, its callers, and the 'get' lookups.          *)
(* SpecFail   : get_or_create failing part-way on an existing participant. *)
(***************************************************************************)
EXTENDS Integers, Sequences, FiniteSets, TLC

VARIABLES
    participants,   \* the participant table: id -> row
    next_id,        \* the table's autoincrement
    unique_pair,    \* the storage layer enforces uniqueness of (incident, individual)
    last,           \* the last completed service call: operation, arguments, what
                    \* the contact plugin answered, outcome
    pc,             \* SpecRace: each caller's position in get_or_create
    call,           \* SpecRace: each caller's arguments and query result
    session,        \* SpecFail: what the caller's db_session holds uncommitted
    heap,           \* SpecRender: the Python objects: address -> list or dict
    message_template,   \* SpecRender: the address of the caller's template list
    kwargs,         \* SpecRender: the context of the last render call
    rendered        \* SpecRender: what the last render call returned or raised

pvars == <<participants, next_id, unique_pair, last, pc, call, session>>
rvars == <<heap, message_template, kwargs, rendered>>
vars == <<participants, next_id, unique_pair, last, pc, call, session,
          heap, message_template, kwargs, rendered>>

-----------------------------------------------------------------------------
(* Bounds of the model. *)

\* the participant table holds at most this many rows ever inserted
MaxParticipants == 2
\* a participant holds at most this many role records
MaxRoleRecords == 2
\* SpecRepeat: the participant of the repeated calls holds at most this many
MaxRepeatedRoles == 4

-----------------------------------------------------------------------------
(* Values. *)

\* Python's None / SQL NULL for an identifier; `if service_id:` is false for it
None == 0

\* the (incident_id, individual_id) keys the callers use
Pairs == {<<1, 1>>, <<1, 2>>}

\* the service table
Services == {1, 2}
\* service_id arguments: None and two services
ServiceIds == {None, 1, 2}

RoleNames == {"commander", "observer"}
\* participant_roles arguments: lists of ParticipantRoleCreate
RoleLists == {<<"commander">>, <<"observer">>}

\* what the contact plugin returns for an email; "absent": no active plugin,
\* "nothing": the plugin returns None, "empty": a result with no field
ContactPlugins == {"absent", "nothing", "empty", "full"}

InfoOf(plugin) ==
    CASE plugin = "full" -> [team |-> "Security", department |-> "Eng", location |-> "Remote"]
      [] OTHER -> <<>>

\* dict.get(key, default)
DictGet(d, key, default) == IF key \in DOMAIN d THEN d[key] ELSE default

-----------------------------------------------------------------------------
(* Collaborators. *)

\* service_service.get: the service with that id, or None
service_service_get(service_id) == IF service_id \in Services THEN service_id ELSE None

\* participant_role_service.create: a new, active role record
participant_role_service_create(participant_role_in) ==
    [role |-> participant_role_in, renounced_at |-> None]

RECURSIVE create_roles(_)
create_roles(participant_roles) ==
    IF participant_roles = <<>> THEN <<>>
    ELSE <<participant_role_service_create(Head(participant_roles))>>
             \o create_roles(Tail(participant_roles))

-----------------------------------------------------------------------------
(* The service's operations as functions of the table. *)

\* the rows the query of get_or_create matches
matching(ps, incident_id, individual_id) ==
    {p \in DOMAIN ps : /\ ps[p].incident_id = incident_id
                       /\ ps[p].individual_contact_id = individual_id}

\* .one_or_none(): the row, None, or MultipleResultsFound
one_or_none(rows) ==
    IF Cardinality(rows) > 1 THEN [raised |-> "MultipleResultsFound", row |-> None]
    ELSE IF rows = {} THEN [raised |-> "", row |-> None]
    ELSE [raised |-> "", row |-> CHOOSE p \in rows : TRUE]

\* get_or_create, lines 105-126: the ParticipantCreate of a new participant
participant_create_in(plugin, service_id, participant_roles) ==
    LET individual_info == InfoOf(plugin)
    IN  [participant_roles |-> participant_roles,
         team |-> DictGet(individual_info, "team", "Unknown"),
         department |-> DictGet(individual_info, "department", "Unknown"),
         location |-> DictGet(individual_info, "location", "Unknown"),
         service |-> IF service_id # None THEN service_id ELSE None]

\* create: the Participant row built from a ParticipantCreate; the incident and
\* the individual are no fields of ParticipantCreate, so the row has neither
new_participant(participant_in) ==
    [incident_id |-> None,
     individual_contact_id |-> None,
     service_id |-> IF participant_in.service # None
                    THEN service_service_get(participant_in.service)
                    ELSE None,
     participant_roles |-> create_roles(participant_in.participant_roles),
     team |-> participant_in.team,
     department |-> participant_in.department,
     location |-> participant_in.location]

\* a mutant of insert: no row is added while an earlier new row is still unattached
insert_exclusive(ps, id, row) ==
    IF \E p \in DOMAIN ps : ps[p].incident_id = None
    THEN ps
    ELSE [p \in DOMAIN ps \cup {id} |-> IF p = id THEN row ELSE ps[p]]

\* db_session.add(participant); db_session.commit()
insert(ps, id, row) == [p \in DOMAIN ps \cup {id} |-> IF p = id THEN row ELSE ps[p]]

\* a mutant of associate_service: the check of participant.service is missing
associate_service_always(current, loaded_service_id, service_id) ==
    IF service_service_get(service_id) # None THEN service_id ELSE current

\* get_or_create, lines 138-143: the service is associated only once
associate_service(current, loaded_service_id, service_id) ==
    IF loaded_service_id = None /\ service_service_get(service_id) # None
    THEN service_id
    ELSE current

\* a mutant of add_roles: a role the participant already holds is not added
add_roles_once(ps, p, loaded_service_id, service_id, participant_roles) ==
    [ps EXCEPT ![p] = [@ EXCEPT
        !.participant_roles =
            @ \o create_roles(SelectSeq(participant_roles,
                    LAMBDA r : \A i \in 1..Len(ps[p].participant_roles) :
                                  ps[p].participant_roles[i].role # r)),
        !.service_id = associate_service(@, loaded_service_id, service_id)]]

\* get_or_create, lines 130-145: the branch of an existing participant
\* (loaded_service_id: participant.service as the query loaded it)
add_roles(ps, p, loaded_service_id, service_id, participant_roles) ==
    [ps EXCEPT ![p] = [@ EXCEPT
        !.participant_roles = @ \o create_roles(participant_roles),
        !.service_id = associate_service(@, loaded_service_id, service_id)]]


\* lines 97-108: the incident, the individual contact and the contact plugin
\* are looked up when the query found no participant
consults(found) == IF found = None THEN {"incident", "individual", "plugin"} ELSE {}

\* a mutant of goc_finish: the team, department and location of a participant
\* found are set again from the contact information
goc_finish_refreshing(ps, nid, found, loaded_service_id, service_id, participant_roles, plugin) ==
    IF found = None
    THEN IF plugin = "nothing"
         THEN [ps |-> ps, next_id |-> nid, result |-> None, raised |-> "AttributeError"]
         ELSE [ps |-> insert(ps, nid, new_participant(
                          participant_create_in(plugin, service_id, participant_roles))),
               next_id |-> nid + 1, result |-> nid, raised |-> ""]
    ELSE [ps |-> [add_roles(ps, found, loaded_service_id, service_id, participant_roles)
                     EXCEPT ![found] = [@ EXCEPT
                         !.team = DictGet(InfoOf(plugin), "team", "Unknown"),
                         !.department = DictGet(InfoOf(plugin), "department", "Unknown"),
                         !.location = DictGet(InfoOf(plugin), "location", "Unknown")]],
          next_id |-> nid, result |-> found, raised |-> ""]

\* get_or_create after its query, lines 97-147: what is committed and returned
\* (found: the queried row or None)
goc_finish(ps, nid, found, loaded_service_id, service_id, participant_roles, plugin) ==
    IF found = None
    THEN IF plugin = "nothing"
         THEN \* individual_info is None: individual_info.get raises
              [ps |-> ps, next_id |-> nid, result |-> None, raised |-> "AttributeError"]
         ELSE [ps |-> insert(ps, nid, new_participant(
                          participant_create_in(plugin, service_id, participant_roles))),
               next_id |-> nid + 1, result |-> nid, raised |-> ""]
    ELSE [ps |-> add_roles(ps, found, loaded_service_id, service_id, participant_roles),
          next_id |-> nid, result |-> found, raised |-> ""]

\* the fields a ParticipantUpdate can carry
ParticipantUpdateFields == {"team", "department", "location"}

\* a mutant of update_row: participant_in.dict() without skip_defaults, the
\* fields not set explicitly come with their default
update_row_defaults(row, update_data) ==
    [field \in DOMAIN row |->
        IF field \in DOMAIN update_data THEN update_data[field]
        ELSE IF field \in ParticipantUpdateFields THEN "" ELSE row[field]]

\* a mutant of update_row: a field the update data does not name is cleared
update_row_clearing(row, update_data) ==
    [field \in DOMAIN row |->
        IF field \in DOMAIN update_data THEN update_data[field]
        ELSE IF field = "service_id" THEN None ELSE row[field]]

\* update, lines 184-190: the fields of the row that the update data names
update_row(row, update_data) ==
    [field \in DOMAIN row |->
        IF field \in DOMAIN update_data THEN update_data[field] ELSE row[field]]

\* the update specifications the callers use: the fields explicitly set
UpdateInputs == {<<>>, [team |-> "Security"]}

\* SpecUpdate: every choice of explicitly set fields
UpdateSpecs == UNION {[fields -> {"Moved"}] : fields \in SUBSET ParticipantUpdateFields}

\* the ParticipantCreate specifications the callers of create use
CreateInputs ==
    {participant_create_in(plugin, service_id, roles) :
        plugin \in {"absent"}, service_id \in {None, 2},
        roles \in {<<"observer">>}}

\* the model keeps a row within a bound of role records
fits_within(bound, ps, found, participant_roles) ==
    IF found = None THEN Len(participant_roles) <= bound
    ELSE Len(ps[found].participant_roles) + Len(participant_roles) <= bound

fits(ps, found, participant_roles) == fits_within(MaxRoleRecords, ps, found, participant_roles)

\* a db_session with nothing uncommitted; otherwise the role records appended
\* to a participant and not yet committed
NoPending == [participant |-> None, roles |-> <<>>]

NoCall == [op |-> "none", incident_id |-> None, individual_id |-> None,
           service_id |-> None, participant_roles |-> <<>>, plugin |-> "absent",
           update_data |-> <<>>, participant_id |-> None, collaborators |-> {},
           result |-> None, raised |-> ""]

Done(op, result, raised) == [NoCall EXCEPT !.op = op, !.result = result, !.raised = raised]

-----------------------------------------------------------------------------
(* Spec: the service's operations, one call at a time. *)

\* get_or_create, on a table whose rows hold at most bound role records
get_or_create_within(bound, incident_id, individual_id, service_id, participant_roles, plugin) ==
    LET q == one_or_none(matching(participants, incident_id, individual_id))
        loaded == IF q.row = None THEN None ELSE participants[q.row].service_id
        out == goc_finish(participants, next_id, q.row, loaded, service_id,
                          participant_roles, plugin)
        this == [op |-> "get_or_create", incident_id |-> incident_id,
                 individual_id |-> individual_id, service_id |-> service_id,
                 participant_roles |-> participant_roles, plugin |-> plugin,
                 update_data |-> <<>>, participant_id |-> None, collaborators |-> {},
                 result |-> None, raised |-> ""]
    IN  /\ q.raised = "" => fits_within(bound, participants, q.row, participant_roles)
        /\ (q.raised = "" /\ q.row = None /\ plugin # "nothing") => next_id <= MaxParticipants
        /\ IF q.raised # ""
           THEN /\ last' = [this EXCEPT !.raised = q.raised]
                /\ UNCHANGED <<participants, next_id>>
           ELSE /\ participants' = out.ps
                /\ next_id' = out.next_id
                /\ last' = [this EXCEPT !.result = out.result, !.raised = out.raised,
                                        !.collaborators = consults(q.row)]
        /\ UNCHANGED <<unique_pair, pc, call>>
        /\ UNCHANGED session
        /\ UNCHANGED rvars

get_or_create(incident_id, individual_id, service_id, participant_roles, plugin) ==
    get_or_create_within(MaxRoleRecords, incident_id, individual_id, service_id,
                         participant_roles, plugin)

create(participant_in) ==
    /\ next_id <= MaxParticipants
    /\ Len(participant_in.participant_roles) <= MaxRoleRecords
    /\ participants' = insert(participants, next_id, new_participant(participant_in))
    /\ next_id' = next_id + 1
    /\ last' = Done("create", next_id, "")
    /\ UNCHANGED <<unique_pair, pc, call>>
    /\ UNCHANGED session
    /\ UNCHANGED rvars

update(participant, participant_in) ==
    /\ participant \in DOMAIN participants
    /\ participants' = [participants EXCEPT
                           ![participant] = update_row(@, participant_in)]
    /\ last' = [Done("update", participant, "") EXCEPT !.update_data = participant_in]
    /\ UNCHANGED <<next_id, unique_pair, pc, call>>
    /\ UNCHANGED session
    /\ UNCHANGED rvars

\* .first() of the rows with that id: the row or None
first_by_id(ps, participant_id) == IF participant_id \in DOMAIN ps THEN participant_id ELSE None

\* a mutant of delete: a missing participant is passed over without an error
delete_if_present(participant_id) ==
    LET participant == first_by_id(participants, participant_id)
        this == [NoCall EXCEPT !.op = "delete", !.participant_id = participant_id]
    IN  /\ IF participant = None
           THEN /\ last' = this
                /\ UNCHANGED participants
           ELSE /\ participants' = [p \in DOMAIN participants \ {participant} |->
                                        participants[p]]
                /\ last' = [this EXCEPT !.result = participant]
        /\ UNCHANGED <<next_id, unique_pair, pc, call>>
        /\ UNCHANGED session
        /\ UNCHANGED rvars

delete(participant_id) ==
    LET participant == first_by_id(participants, participant_id)
        this == [NoCall EXCEPT !.op = "delete", !.participant_id = participant_id]
    IN  /\ IF participant = None
           THEN \* db_session.delete(None) raises
                /\ last' = [this EXCEPT !.raised = "UnmappedInstanceError"]
                /\ UNCHANGED participants
           ELSE /\ participants' = [p \in DOMAIN participants \ {participant} |->
                                        participants[p]]
                /\ last' = [this EXCEPT !.result = participant]
        /\ UNCHANGED <<next_id, unique_pair, pc, call>>
        /\ UNCHANGED session
        /\ UNCHANGED rvars

\* the caller of get_or_create adds the participant it got to the incident's and
\* the individual's participants; a uniqueness constraint rejects a second row
link(ps, unique, participant, incident_id, individual_id) ==
    IF unique /\ matching(ps, incident_id, individual_id) \ {participant} # {}
    THEN [ps |-> ps, raised |-> "IntegrityError"]
    ELSE [ps |-> [ps EXCEPT ![participant] = [@ EXCEPT
                      !.incident_id = incident_id,
                      !.individual_contact_id = individual_id]],
          raised |-> ""]

attach ==
    /\ last.op = "get_or_create"
    /\ last.raised = ""
    /\ last.result \in DOMAIN participants
    /\ participants[last.result].incident_id = None
    /\ LET out == link(participants, unique_pair, last.result,
                       last.incident_id, last.individual_id)
       IN  /\ participants' = out.ps
           /\ last' = Done("attach", last.result, out.raised)
    /\ UNCHANGED <<next_id, unique_pair, pc, call>>
    /\ UNCHANGED session
    /\ UNCHANGED rvars

\* the contact plugin is consulted only when the query finds no participant
consulted(ps, incident_id, individual_id) ==
    IF matching(ps, incident_id, individual_id) = {} THEN ContactPlugins ELSE {"absent"}

Callers == {1, 2}

\* the renderer is not in use
NoRender ==
    /\ heap = <<>>
    /\ message_template = None
    /\ kwargs = <<>>
    /\ rendered = [raised |-> "", data |-> None]

\* a caller that has not called yet
NoQuery == [incident_id |-> None, individual_id |-> None, service_id |-> None,
            participant_roles |-> <<>>, found |-> None, loaded_service_id |-> None,
            seen |-> {}, result |-> None, raised |-> "", attach_raised |-> ""]

Init ==
    /\ participants = <<>>
    /\ next_id = 1
    /\ unique_pair = FALSE
    /\ session = NoPending
    /\ last = NoCall
    /\ pc = [c \in Callers |-> "idle"]
    /\ call = [c \in Callers |-> NoQuery]
    /\ NoRender

Next ==
    \/ \E pair \in Pairs, service_id \in ServiceIds, roles \in RoleLists :
          \E plugin \in consulted(participants, pair[1], pair[2]) :
            get_or_create(pair[1], pair[2], service_id, roles, plugin)
    \/ \E participant_in \in CreateInputs : create(participant_in)
    \/ \E p \in 1..MaxParticipants, participant_in \in UpdateInputs :
            update(p, participant_in)
    \/ \E participant_id \in 1..MaxParticipants : delete(participant_id)
    \/ attach

Spec == Init /\ [][Next]_vars

-----------------------------------------------------------------------------
(* SpecRepeat: repeated get_or_create calls for one (incident, individual),  *)
(* whose caller adds the participant it got to the incident and individual. *)

NextRepeat ==
    \/ \E service_id \in ServiceIds, roles \in RoleLists :
          \E plugin \in consulted(participants, 1, 1) :
            get_or_create_within(MaxRepeatedRoles, 1, 1, service_id, roles, plugin)
    \/ attach

SpecRepeat == Init /\ [][NextRepeat]_vars

-----------------------------------------------------------------------------
(* SpecLookup: the 'get' lookups (lines 13-54) on the tables that calls of   *)
(* get_or_create and their callers leave.                                    *)

\* the participants of an incident that hold an active record of the role
with_active_role(ps, incident_id, role) ==
    {p \in DOMAIN ps :
        /\ ps[p].incident_id = incident_id
        /\ \E i \in 1..Len(ps[p].participant_roles) :
              /\ ps[p].participant_roles[i].role = role
              /\ ps[p].participant_roles[i].renounced_at = None}

\* the participants of an incident that have the service
with_service(ps, incident_id, service_id) ==
    {p \in DOMAIN ps : ps[p].incident_id = incident_id /\ ps[p].service_id = service_id}

\* IndividualContact.email: each individual has an email of its own
email_of(individual_id) == <<"mail", individual_id>>

\* the participants of an incident whose individual has the email
with_email(ps, incident_id, email) ==
    {p \in DOMAIN ps :
        /\ ps[p].incident_id = incident_id
        /\ ps[p].individual_contact_id # None
        /\ email_of(ps[p].individual_contact_id) = email}

\* a lookup returns what its query gives, or raises what the query raises
returns(this, q) ==
    /\ last' = [this EXCEPT !.result = q.row, !.raised = q.raised]
    /\ UNCHANGED <<participants, next_id, unique_pair, pc, call>>
    /\ UNCHANGED session
    /\ UNCHANGED rvars

get(participant_id) ==
    returns([NoCall EXCEPT !.op = "get", !.participant_id = participant_id],
            [raised |-> "", row |-> first_by_id(participants, participant_id)])

get_by_incident_id_and_role(incident_id, role) ==
    returns([NoCall EXCEPT !.op = "get_by_incident_id_and_role",
                           !.incident_id = incident_id, !.participant_roles = <<role>>],
            one_or_none(with_active_role(participants, incident_id, role)))

get_by_incident_id_and_email(incident_id, individual_id) ==
    returns([NoCall EXCEPT !.op = "get_by_incident_id_and_email",
                           !.incident_id = incident_id, !.individual_id = individual_id],
            one_or_none(with_email(participants, incident_id, email_of(individual_id))))

get_by_incident_id_and_service_id(incident_id, service_id) ==
    returns([NoCall EXCEPT !.op = "get_by_incident_id_and_service_id",
                           !.incident_id = incident_id, !.service_id = service_id],
            one_or_none(with_service(participants, incident_id, service_id)))

\* the incidents of the callers' keys
Incidents == {pair[1] : pair \in Pairs}

NextLookup ==
    \/ \E pair \in Pairs, service_id \in ServiceIds, roles \in RoleLists :
          \E plugin \in consulted(participants, pair[1], pair[2]) :
            get_or_create(pair[1], pair[2], service_id, roles, plugin)
    \/ attach
    \/ \E participant_id \in 1..MaxParticipants : get(participant_id)
    \/ \E incident_id \in Incidents, role \in RoleNames :
            get_by_incident_id_and_role(incident_id, role)
    \/ \E pair \in Pairs : get_by_incident_id_and_email(pair[1], pair[2])
    \/ \E incident_id \in Incidents, service_id \in Services :
            get_by_incident_id_and_service_id(incident_id, service_id)

SpecLookup == Init /\ [][NextLookup]_vars

-----------------------------------------------------------------------------
(* SpecUpdate: participants are created, updated with every choice of fields,*)
(* looked up by identifier and deleted.                                      *)

NextUpdate ==
    \/ \E participant_in \in CreateInputs : create(participant_in)
    \/ \E p \in 1..MaxParticipants, participant_in \in UpdateSpecs :
            update(p, participant_in)
    \/ \E participant_id \in 1..MaxParticipants : delete(participant_id)
    \/ \E participant_id \in 1..MaxParticipants : get(participant_id)

SpecUpdate == Init /\ [][NextUpdate]_vars

-----------------------------------------------------------------------------
(* SpecFail: get_or_create on an existing participant fails part-way, in a   *)
(* role creation or in the service lookup.  The appends made so far stay in  *)
(* the caller's db_session: get_or_create neither catches the exception nor  *)
(* rolls back.                                                               *)

\* a commit of the session: what it holds uncommitted is stored
flush(ps, pending) ==
    IF pending.participant = None THEN ps
    ELSE [ps EXCEPT ![pending.participant] =
             [@ EXCEPT !.participant_roles = @ \o pending.roles]]

\* participant_role_service.create may commit the session at its end, as the
\* calls of this service do
role_create_commit(ps, pending, commits) == IF commits THEN flush(ps, pending) ELSE ps

role_create_pending(pending, commits) == IF commits THEN NoPending ELSE pending

\* lines 131-143 up to the failure: the k-th role creation raises when
\* fail_at = k, the service lookup when fail_at = Len(participant_roles) + 1
RECURSIVE append_until(_, _, _, _, _, _, _)
append_until(ps, pending, p, participant_roles, k, fail_at, commits) ==
    IF k = fail_at \/ k > Len(participant_roles)
    THEN [ps |-> ps, session |-> pending]
    ELSE append_until(
             role_create_commit(ps, pending, commits),
             [participant |-> p,
              roles |-> role_create_pending(pending, commits).roles
                           \o <<participant_role_service_create(participant_roles[k])>>],
             p, participant_roles, k + 1, fail_at, commits)

\* the role lists of the failing calls
FailingRoleLists == RoleLists \cup {<<"commander", "observer">>}

\* get_or_create finds a participant and fails part-way
get_or_create_failing(incident_id, individual_id, service_id, participant_roles, fail_at, commits) ==
    LET q == one_or_none(matching(participants, incident_id, individual_id))
        out == append_until(participants, NoPending, q.row, participant_roles, 1,
                            fail_at, commits)
    IN  /\ session = NoPending
        /\ q.raised = "" /\ q.row # None
        /\ fits_within(MaxRepeatedRoles, participants, q.row, participant_roles)
        \* the service is looked up only for a participant without one
        /\ fail_at = Len(participant_roles) + 1 => participants[q.row].service_id = None
        /\ participants' = out.ps
        /\ session' = out.session
        /\ last' = [NoCall EXCEPT
                        !.op = "get_or_create", !.incident_id = incident_id,
                        !.individual_id = individual_id, !.service_id = service_id,
                        !.participant_roles = participant_roles,
                        !.participant_id = q.row, !.raised = "Exception"]
        /\ UNCHANGED <<next_id, unique_pair, pc, call>>
        /\ UNCHANGED rvars

\* the db_session.commit() of a later call on the same session (line 192 of an
\* update that sets no field)
commit ==
    /\ session # NoPending
    /\ participants' = flush(participants, session)
    /\ session' = NoPending
    /\ last' = [NoCall EXCEPT !.op = "commit", !.result = session.participant]
    /\ UNCHANGED <<next_id, unique_pair, pc, call>>
    /\ UNCHANGED rvars

\* the caller rolls its session back after the exception
rollback ==
    /\ session # NoPending
    /\ session' = NoPending
    /\ last' = [NoCall EXCEPT !.op = "rollback"]
    /\ UNCHANGED <<participants, next_id, unique_pair, pc, call>>
    /\ UNCHANGED rvars

NextFail ==
    \/ /\ session = NoPending
       /\ \E service_id \in ServiceIds, roles \in RoleLists :
             \E plugin \in consulted(participants, 1, 1) :
               get_or_create_within(MaxRepeatedRoles, 1, 1, service_id, roles, plugin)
    \/ session = NoPending /\ attach
    \/ \E service_id \in ServiceIds, roles \in FailingRoleLists, commits \in BOOLEAN :
          \E fail_at \in 1..(Len(roles) + 1) :
            get_or_create_failing(1, 1, service_id, roles, fail_at, commits)
    \/ commit
    \/ rollback

SpecFail == Init /\ [][NextFail]_vars

-----------------------------------------------------------------------------
(* SpecRace: two callers of get_or_create.  A call is two steps, the query  *)
(* (lines 90-95) and the rest up to its commit (lines 97-147); the caller   *)
(* then adds the participant to the incident and the individual.            *)

\* what caller c passes: its own role and service, or no service
RaceServiceIds(c) == {None, c}
RaceRoles(c) == IF c = 1 THEN <<"commander">> ELSE <<"observer">>

goc_query(c, incident_id, individual_id, service_id, participant_roles) ==
    LET q == one_or_none(matching(participants, incident_id, individual_id))
        this == [NoQuery EXCEPT
                    !.incident_id = incident_id, !.individual_id = individual_id,
                    !.service_id = service_id, !.participant_roles = participant_roles,
                    !.seen = DOMAIN participants]
    IN  /\ pc[c] \in {"idle", "done"}
        /\ IF q.raised # ""
           THEN /\ call' = [call EXCEPT ![c] = [this EXCEPT !.raised = q.raised]]
                /\ pc' = [pc EXCEPT ![c] = "done"]
           ELSE /\ call' = [call EXCEPT ![c] = [this EXCEPT
                                !.found = q.row,
                                !.loaded_service_id =
                                    IF q.row = None THEN None
                                    ELSE participants[q.row].service_id]]
                /\ pc' = [pc EXCEPT ![c] = "queried"]
        /\ UNCHANGED <<participants, next_id, unique_pair, last>>
        /\ UNCHANGED session
        /\ UNCHANGED rvars

goc_commit(c, plugin) ==
    LET a == call[c]
        out == goc_finish(participants, next_id, a.found, a.loaded_service_id,
                          a.service_id, a.participant_roles, plugin)
    IN  /\ pc[c] = "queried"
        /\ fits(participants, a.found, a.participant_roles)
        /\ (a.found = None /\ plugin # "nothing") => next_id <= MaxParticipants
        /\ participants' = out.ps
        /\ next_id' = out.next_id
        /\ call' = [call EXCEPT ![c] = [a EXCEPT !.result = out.result,
                                                 !.raised = out.raised]]
        /\ pc' = [pc EXCEPT ![c] = "done"]
        /\ UNCHANGED <<unique_pair, last>>
        /\ UNCHANGED session
        /\ UNCHANGED rvars

caller_attach(c) ==
    LET a == call[c]
    IN  /\ pc[c] = "done"
        /\ a.raised = ""
        /\ a.result \in DOMAIN participants
        /\ participants[a.result].incident_id = None
        /\ LET out == link(participants, unique_pair, a.result,
                           a.incident_id, a.individual_id)
           IN  /\ participants' = out.ps
               /\ call' = [call EXCEPT ![c] = [a EXCEPT !.attach_raised = out.raised]]
        /\ pc' = [pc EXCEPT ![c] = "idle"]
        /\ UNCHANGED <<next_id, unique_pair, last>>
        /\ UNCHANGED session
        /\ UNCHANGED rvars

InitRace ==
    /\ participants = <<>>
    /\ next_id = 1
    /\ unique_pair \in BOOLEAN
    /\ session = NoPending
    /\ last = NoCall
    /\ pc = [c \in Callers |-> "idle"]
    /\ call = [c \in Callers |-> NoQuery]
    /\ NoRender

NextRace ==
    \/ \E c \in Callers, pair \in Pairs :
          \E service_id \in RaceServiceIds(c) :
            goc_query(c, pair[1], pair[2], service_id, RaceRoles(c))
    \/ \E c \in Callers :
          \E plugin \in (IF call[c].found = None THEN ContactPlugins ELSE {"absent"}) :
            goc_commit(c, plugin)
    \/ \E c \in Callers : caller_attach(c)

SpecRace == InitRace /\ [][NextRace]_vars

-----------------------------------------------------------------------------
(* The message template renderer (dispatch/messaging/strings.py).           *)
(* A string is a sequence of characters.  A Python list or dict is an       *)
(* object of the heap, held by its address; a string is a value.            *)

\* a template has at most this many blocks
MaxBlocks == 2

\* the length beyond which a rendered text is cut
TextLimit == 2500

\* a key a dict does not have, or a None value
NoValue == <<"<None>">>

\* Python's truth of a string, or of the None that dict.get returns
truthy(v) == v # NoValue /\ v # <<>>

Min(S) == CHOOSE x \in S : \A y \in S : x <= y
Max(S) == CHOOSE x \in S : \A y \in S : x >= y

\* the names of the context entries the templates use
k_name == <<"n", "a", "m", "e">>
k_url == <<"u", "r", "l">>
k_desc == <<"d", "e", "s", "c">>
k_status == <<"s", "t", "a", "t", "u", "s">>

\* str(None)
str_None == <<"N", "o", "n", "e">>

\* "{{name}}"
Var(name) == <<"{", "{">> \o name \o <<"}", "}">>

(* jinja2.Template(t).render(ctx), for templates of text and {{ name }}.  *)

opens(t) == {i \in 1..(Len(t) - 1) : t[i] = "{" /\ t[i + 1] = "{"}
closes(t, i) == {j \in (i + 2)..(Len(t) - 1) : t[j] = "}" /\ t[j + 1] = "}"}
strip(e) == SelectSeq(e, LAMBDA ch : ch # " ")

\* an undefined name renders as the empty string, None as "None"
substitute(name, ctx) ==
    IF name \in DOMAIN ctx
    THEN IF ctx[name] = NoValue THEN str_None ELSE ctx[name]
    ELSE <<>>

\* TemplateSyntaxError: an expression that is not closed, or is empty
RECURSIVE jinja_error(_)
jinja_error(t) ==
    IF opens(t) = {} THEN FALSE
    ELSE LET i == Min(opens(t))
         IN  IF closes(t, i) = {} THEN TRUE
             ELSE LET j == Min(closes(t, i))
                  IN  \/ strip(SubSeq(t, i + 2, j - 1)) = <<>>
                      \/ jinja_error(SubSeq(t, j + 2, Len(t)))

\* the template's text after its last expression: jinja2 drops a single
\* trailing newline of the source (keep_trailing_newline is off)
tail_text(t) == IF t # <<>> /\ t[Len(t)] = "\n" THEN SubSeq(t, 1, Len(t) - 1) ELSE t

RECURSIVE jinja_render(_, _)
jinja_render(t, ctx) ==
    IF opens(t) = {} THEN tail_text(t)
    ELSE LET i == Min(opens(t))
             j == Min(closes(t, i))
         IN  SubSeq(t, 1, i - 1)
                 \o substitute(strip(SubSeq(t, i + 2, j - 1)), ctx)
                 \o jinja_render(SubSeq(t, j + 2, Len(t)), ctx)

(* The heap. *)

\* the addresses an object holds
refs(o) ==
    CASE o.obj = "list" -> {o.items[i] : i \in 1..Len(o.items)}
      [] o.obj = "block" -> {o.buttons, o.status_mapping} \ {None}
      [] OTHER -> {}

reach(h, R) == R \cup UNION {refs(h[x]) : x \in R}

\* a list, its blocks, their button lists and mappings, their buttons
reachable(h, a) == reach(h, reach(h, reach(h, {a})))

restrict(h, keep) == [x \in keep |-> h[x]]

\* an object with the addresses it holds moved by shift
relocate(o, shift) ==
    CASE o.obj = "list" -> [o EXCEPT !.items = [i \in 1..Len(o.items) |-> o.items[i] + shift]]
      [] o.obj = "block" ->
            [o EXCEPT !.buttons = IF @ = None THEN None ELSE @ + shift,
                      !.status_mapping = IF @ = None THEN None ELSE @ + shift]
      [] OTHER -> o

\* a mutant of deepcopy: copy.copy, a new list of the same blocks
shallowcopy(h, a) ==
    LET top == Max(DOMAIN h)
    IN  [h |-> [x \in DOMAIN h \cup {top + 1} |-> IF x \in DOMAIN h THEN h[x] ELSE h[a]],
         ref |-> top + 1]

\* copy.deepcopy: new objects for all that a reaches
deepcopy(h, a) ==
    LET top == Max(DOMAIN h)
        copies == {y + top : y \in reachable(h, a)}
    IN  [h |-> [x \in DOMAIN h \cup copies |->
                   IF x \in DOMAIN h THEN h[x] ELSE relocate(h[x - top], top)],
         ref |-> a + top]

(* render_message_template, one block: st is the heap and how the block goes *)
(* on: "run", "continue" (the block is skipped) or the exception raised.     *)

\* d[field] = Template(d[field]).render(kwargs), when d.get(field)
render_field(st, a, field, ctx) ==
    IF st.status # "run" \/ ~truthy(st.h[a][field]) THEN st
    ELSE IF jinja_error(st.h[a][field]) THEN [st EXCEPT !.status = "TemplateSyntaxError"]
    ELSE [st EXCEPT !.h[a][field] = jinja_render(@, ctx)]

\* d[field] = Template(d[field]).render(kwargs), whatever d has
render_required(st, a, field, ctx) ==
    IF st.status # "run" THEN st
    ELSE IF st.h[a][field] = NoValue THEN [st EXCEPT !.status = "KeyError"]
    ELSE IF jinja_error(st.h[a][field]) THEN [st EXCEPT !.status = "TemplateSyntaxError"]
    ELSE [st EXCEPT !.h[a][field] = jinja_render(@, ctx)]

\* a mutant of skipped: the test for "None" is missing
skipped_if_empty(title_link) == ~truthy(title_link)

\* lines 740-745: a block whose link rendered to "None" or to nothing is skipped
skipped(title_link) == title_link = str_None \/ ~truthy(title_link)

render_title_link(st, a, ctx) ==
    IF st.status # "run" \/ ~truthy(st.h[a].title_link) THEN st
    ELSE LET r == render_field(st, a, "title_link", ctx)
         IN  IF r.status = "run" /\ skipped(r.h[a].title_link)
             THEN [r EXCEPT !.status = "continue"]
             ELSE r

\* a mutant of truncate: the last TextLimit characters are kept
truncate_tail(text) ==
    IF Len(text) <= TextLimit THEN text
    ELSE SubSeq(text, Len(text) - TextLimit + 1, Len(text))

\* line 752
truncate(text) == IF Len(text) <= TextLimit THEN text ELSE SubSeq(text, 1, TextLimit)

render_text(st, a, ctx) ==
    IF st.status # "run" \/ ~truthy(st.h[a].text) THEN st
    ELSE LET r == render_field(st, a, "text", ctx)
         IN  IF r.status = "run" THEN [r EXCEPT !.h[a].text = truncate(@)] ELSE r

\* lines 757-764, one button
render_button(st, b, ctx) ==
    render_field(
        render_field(
            render_required(render_required(st, b, "button_text", ctx),
                            b, "button_value", ctx),
            b, "button_action", ctx),
        b, "button_url", ctx)

RECURSIVE render_buttons_from(_, _, _, _)
render_buttons_from(st, items, i, ctx) ==
    IF i > Len(items) THEN st
    ELSE render_buttons_from(render_button(st, items[i], ctx), items, i + 1, ctx)

\* lines 755-764
render_buttons(st, a, ctx) ==
    IF st.status # "run" \/ st.h[a].buttons = None THEN st
    ELSE render_buttons_from(st, st.h[st.h[a].buttons].items, 1, ctx)

\* a mutant of status_text: status_mapping.get(status, text)
status_text_or_default(mapping, ctx, text) ==
    IF k_status \in DOMAIN ctx /\ ctx[k_status] \in DOMAIN mapping
    THEN [raised |-> "", text |-> mapping[ctx[k_status]]]
    ELSE [raised |-> "", text |-> text]

\* line 767: d["status_mapping"][kwargs["status"]]
status_text(mapping, ctx, text) ==
    IF k_status \in DOMAIN ctx /\ ctx[k_status] \in DOMAIN mapping
    THEN [raised |-> "", text |-> mapping[ctx[k_status]]]
    ELSE [raised |-> "KeyError", text |-> text]

\* lines 766-767
render_status(st, a, ctx) ==
    IF st.status # "run" \/ st.h[a].status_mapping = None THEN st
    ELSE LET mapping == st.h[st.h[a].status_mapping].map
         IN  IF DOMAIN mapping = {} THEN st
             ELSE LET t == status_text(mapping, ctx, st.h[a].text)
                  IN  IF t.raised # "" THEN [st EXCEPT !.status = t.raised]
                      ELSE [st EXCEPT !.h[a].text = t.text]

\* lines 731-773: the body of the loop for the block at address a
render_block(h, a, ctx) ==
    render_field(
        render_field(
            render_status(
                render_buttons(
                    render_text(
                        render_title_link(
                            render_field(
                                render_field([h |-> h, status |-> "run"],
                                             a, "header", ctx),
                                a, "title", ctx),
                            a, ctx),
                        a, ctx),
                    a, ctx),
                a, ctx),
            a, "datetime", ctx),
        a, "context", ctx)

\* lines 730-775: the loop from the i-th block on; data holds the blocks appended
RECURSIVE render_loop(_, _, _, _, _)

\* a mutant of append: the block is put in front of the blocks appended so far
append_in_front(st, items, i, data, ctx) ==
    CASE st.status = "run" -> render_loop(st.h, items, i + 1, <<items[i]>> \o data, ctx)
      [] st.status = "continue" -> render_loop(st.h, items, i + 1, data, ctx)
      [] OTHER -> [h |-> st.h, data |-> data, raised |-> st.status]

\* line 775, or the continue of a skipped block, or the exception leaving the loop
append(st, items, i, data, ctx) ==
    CASE st.status = "run" -> render_loop(st.h, items, i + 1, Append(data, items[i]), ctx)
      [] st.status = "continue" -> render_loop(st.h, items, i + 1, data, ctx)
      [] OTHER -> [h |-> st.h, data |-> data, raised |-> st.status]

render_loop(h, items, i, data, ctx) ==
    IF i > Len(items) THEN [h |-> h, data |-> data, raised |-> ""]
    ELSE append(render_block(h, items[i], ctx), items, i, data, ctx)

\* a mutant of return_data: the list is returned in reverse
return_data_reversed(out, ref) ==
    IF out.raised # ""
    THEN [h |-> out.h, raised |-> out.raised, data |-> None]
    ELSE [h |-> [x \in DOMAIN out.h \cup {ref} |->
                    IF x = ref
                    THEN [obj |-> "list",
                          items |-> [k \in 1..Len(out.data) |->
                                        out.data[Len(out.data) + 1 - k]]]
                    ELSE out.h[x]],
          raised |-> "", data |-> ref]

\* line 777: the list data becomes an object of the heap, at address ref
return_data(out, ref) ==
    IF out.raised # ""
    THEN [h |-> out.h, raised |-> out.raised, data |-> None]
    ELSE [h |-> [x \in DOMAIN out.h \cup {ref} |->
                    IF x = ref THEN [obj |-> "list", items |-> out.data]
                    ELSE out.h[x]],
          raised |-> "", data |-> ref]

\* lines 728-777 on the copy
render_copy(new_copy, ctx) ==
    return_data(render_loop(new_copy.h, new_copy.h[new_copy.ref].items, 1, <<>>, ctx),
                Max(DOMAIN new_copy.h) + 1)

\* render_message_template: the heap after the call, and the address of the
\* list returned or the exception raised
render_message_template(h, template, ctx) == render_copy(deepcopy(h, template), ctx)

(* The value of a template or of a result: the blocks with all they hold. *)

block_value(h, a) ==
    [h[a] EXCEPT
        !.buttons = IF @ = None THEN {}
                    ELSE {[j \in 1..Len(h[@].items) |-> h[h[@].items[j]]]},
        !.status_mapping = IF @ = None THEN {} ELSE {h[@].map}]

value(h, a) == [i \in 1..Len(h[a].items) |-> block_value(h, h[a].items[i])]

(* The templates and the contexts of the callers. *)

NoBlock == [obj |-> "block", type |-> "", header |-> NoValue, title |-> NoValue,
            title_link |-> NoValue, text |-> NoValue, buttons |-> {},
            status_mapping |-> {}, datetime |-> NoValue, context |-> NoValue]

NoButton == [obj |-> "button", button_text |-> NoValue, button_value |-> NoValue,
             button_action |-> NoValue, button_url |-> NoValue]

\* a string of n characters
Long(n) == [i \in 1..n |-> IF i % 2 = 1 THEN "a" ELSE "b"]

s_open == <<"o", "p", "e", "n">>
s_closed == <<"c", "l", "o", "s", "e", "d">>
s_new == <<"n", "e", "w">>

\* a status_mapping; the description of "closed" is longer than TextLimit
Descriptions == [st \in {s_open, s_closed} |->
                    IF st = s_open THEN <<"O", "p", "e", "n">> ELSE Long(TextLimit + 1)]

Blocks ==
    { [NoBlock EXCEPT !.title = <<"H", "i", " ">> \o Var(k_name),
                      !.text = <<"a", "b">> \o Var(k_desc)],
      [NoBlock EXCEPT !.title_link = Var(k_url), !.text = <<"a", "b">> \o Var(k_desc),
                      !.status_mapping = {Descriptions}],
      [NoBlock EXCEPT !.title_link = <<>>, !.text = <<"x">>,
                      !.header = <<"{", "{", " ">> \o k_name \o <<" ", "}", "}">>,
                      !.status_mapping = {<<>>}],
      [NoBlock EXCEPT !.text = Var(k_desc), !.status_mapping = {Descriptions},
                      !.datetime = Var(k_name)],
      [NoBlock EXCEPT !.title = <<"T">>, !.text = Var(k_desc), !.context = Var(k_name),
                      !.buttons = {<<[NoButton EXCEPT !.button_text = Var(k_name),
                                                     !.button_value = <<"v">>,
                                                     !.button_url = Var(k_url)]>>}],
      [NoBlock EXCEPT !.buttons = {<<[NoButton EXCEPT !.button_value = <<"v">>]>>}],
      [NoBlock EXCEPT !.text = <<"{", "{">>] }

\* the i-th block of a template is labelled by its "type"
Label(i) == <<"b", i>>

Templates ==
    UNION {[1..n -> Blocks] : n \in 1..MaxBlocks}

\* a context entry that is not passed
Absent == <<"<absent>">>

Context(status, url, desc) ==
    LET given == [k \in {k_name, k_status, k_url, k_desc} |->
                    CASE k = k_name -> <<"A", "n", "n">>
                      [] k = k_status -> status
                      [] k = k_url -> url
                      [] k = k_desc -> desc]
    IN  restrict(given, {k \in DOMAIN given : given[k] # Absent})

\* every status and link with a description longer than TextLimit, and the
\* shorter descriptions with one status and link: a plain one, one of TextLimit
\* characters, one that is itself a template, one that ends in a newline
Contexts ==
    {Context(status, url, Long(TextLimit + 1)) :
        status \in {Absent, s_open, s_closed, s_new},
        url \in {Absent, NoValue, <<"u">>}}
    \cup {Context(s_open, <<"u">>, desc) :
               desc \in {<<"d">>, Long(TextLimit), Var(k_name), <<"d", "\n">>}}

\* the objects of a template: the list at address 1, its blocks after it, and
\* what block i holds from address 10 * i on
ButtonsOf(b) == IF b.buttons = {} THEN <<>> ELSE CHOOSE bs \in b.buttons : TRUE

load(template) ==
    LET n == Len(template)
        blocks == [i \in 1..n |->
                     [template[i] EXCEPT
                         !.type = Label(i),
                         !.buttons = IF @ = {} THEN None ELSE 10 * i,
                         !.status_mapping = IF @ = {} THEN None ELSE 10 * i + 9]]
        addresses ==
            {1} \cup {1 + i : i \in 1..n}
                \cup {10 * i : i \in {k \in 1..n : template[k].buttons # {}}}
                \cup UNION {{10 * i + j : j \in 1..Len(ButtonsOf(template[i]))} : i \in 1..n}
                \cup {10 * i + 9 : i \in {k \in 1..n : template[k].status_mapping # {}}}
    IN  [x \in addresses |->
            IF x = 1 THEN [obj |-> "list", items |-> [i \in 1..n |-> 1 + i]]
            ELSE IF x <= 1 + n THEN blocks[x - 1]
            ELSE LET i == x \div 10
                     j == x % 10
                 IN  IF j = 0
                     THEN [obj |-> "list",
                           items |-> [k \in 1..Len(ButtonsOf(template[i])) |-> 10 * i + k]]
                     ELSE IF j = 9
                     THEN [obj |-> "mapping",
                           map |-> CHOOSE m \in template[i].status_mapping : TRUE]
                     ELSE ButtonsOf(template[i])[j]]

(* SpecRender: the caller renders its template, again and again. *)

\* what the caller still holds after the call: its template and the result
held(out) ==
    reachable(out.h, message_template)
        \cup (IF out.data = None THEN {} ELSE reachable(out.h, out.data))

render(ctx) ==
    \E out \in {render_message_template(restrict(heap, reachable(heap, message_template)),
                                        message_template, ctx)} :
        /\ heap' = restrict(out.h, held(out))
        /\ kwargs' = ctx
        /\ rendered' = [raised |-> out.raised, data |-> out.data]
        /\ UNCHANGED message_template
        /\ UNCHANGED pvars

InitRender ==
    /\ participants = <<>>
    /\ next_id = 1
    /\ unique_pair = FALSE
    /\ session = NoPending
    /\ last = NoCall
    /\ pc = [c \in Callers |-> "idle"]
    /\ call = [c \in Callers |-> NoQuery]
    /\ \E template \in Templates : heap = load(template)
    /\ message_template = 1
    /\ kwargs = <<>>
    /\ rendered = [raised |-> "", data |-> None]

NextRender == \E ctx \in Contexts : render(ctx)

SpecRender == InitRender /\ [][NextRender]_vars

-----------------------------------------------------------------------------
(* Claims about the participant service. *)

role_names(records) == [i \in 1..Len(records) |-> records[i].role]

disjoint(xs, ys) == {xs[i] : i \in 1..Len(xs)} \cap {ys[i] : i \in 1..Len(ys)} = {}

\* the step is a get_or_create call that directly follows another one, for the
\* same (incident_id, individual_id) and with disjoint role lists
TwiceInSequence ==
    /\ last.op = "get_or_create" /\ last.raised = ""
    /\ last'.op = "get_or_create"
    /\ last'.incident_id = last.incident_id
    /\ last'.individual_id = last.individual_id
    /\ disjoint(last.participant_roles, last'.participant_roles)

\* C1: two get_or_create calls in sequence for the same (incident_id,
\* individual_id) with disjoint role lists return the same participant, the
\* second call creates no participant, and the participant's roles are then the
\* first call's roles followed by the second call's roles.
C1_TwiceSameParticipant ==
    [][TwiceInSequence =>
          /\ last'.raised = ""
          /\ last'.result = last.result
          /\ DOMAIN participants' = DOMAIN participants
          /\ role_names(participants'[last'.result].participant_roles)
                 = last.participant_roles \o last'.participant_roles]_vars

\* the step is a get_or_create call that returns a participant that existed
\* before the call and had a service
ReturnsExistingWithService ==
    /\ last'.op = "get_or_create" /\ last'.raised = ""
    /\ last'.result \in DOMAIN participants
    /\ participants[last'.result].service_id # None

\* C2: get_or_create never overwrites an already-set service: a call that
\* finds a participant whose service is A leaves the service A, whatever
\* service_id the call passes.
C2_ServiceNotOverwritten ==
    [][ReturnsExistingWithService =>
          participants'[last'.result].service_id
              = participants[last'.result].service_id]_vars

\* get_or_create(service_id = B) has just returned a participant of its pair
\* whose service is another service A
C2_Witness ==
    /\ last.op = "get_or_create" /\ last.raised = ""
    /\ last.result \in DOMAIN participants
    /\ participants[last.result].incident_id = last.incident_id
    /\ participants[last.result].individual_contact_id = last.individual_id
    /\ participants[last.result].service_id \in Services
    /\ last.service_id \in Services
    /\ last.service_id # participants[last.result].service_id

Raced(c, d) ==
    /\ c # d
    /\ call[c].result # None /\ call[d].result # None
    /\ call[c].raised = "" /\ call[d].raised = ""
    /\ call[c].found = None /\ call[d].found = None
    /\ call[c].incident_id = call[d].incident_id
    /\ call[c].individual_id = call[d].individual_id
    /\ call[c].result \notin call[d].seen
    /\ call[d].result \notin call[c].seen

\* C4: two interleaved get_or_create calls for the same new pair that both
\* query before either inserts both find nothing and both insert: each returns
\* its own new participant, and both are stored.
C4_RaceBothInsert ==
    \A c \in Callers, d \in Callers :
        Raced(c, d) =>
            /\ call[c].result # call[d].result
            /\ {call[c].result, call[d].result} \subseteq DOMAIN participants

\* both racing calls returned, their callers attached the two participants,
\* and the table holds two participants of the one pair
C4_Witness ==
    \E c \in Callers, d \in Callers :
        /\ Raced(c, d)
        /\ matching(participants, call[c].incident_id, call[c].individual_id)
               = {call[c].result, call[d].result}

\* C5: with uniqueness of (incident, individual) enforced by the storage
\* layer, two racing get_or_create calls for a new pair end with exactly one
\* participant for the pair and with the constraint violation raised by the
\* losing call.
C5_UniqueRaceOneSurvives ==
    \A c \in Callers, d \in Callers :
        (/\ unique_pair /\ c # d
         /\ pc[c] = "done" /\ pc[d] = "done"
         /\ call[c].found = None /\ call[d].found = None
         /\ call[c].incident_id = call[d].incident_id
         /\ call[c].individual_id = call[d].individual_id
         /\ call[c].seen = {} /\ call[d].seen = {}
         /\ call[c].raised # "AttributeError" /\ call[d].raised # "AttributeError")
        => /\ Cardinality(DOMAIN participants) = 1
           /\ "IntegrityError" \in {call[c].raised, call[d].raised}

-----------------------------------------------------------------------------
(* Claims about render_message_template, on the state after a call: kwargs  *)
(* is the call's context and rendered its outcome.                          *)

returned == rendered.data # None
input == value(heap, message_template)
output == value(heap, rendered.data)

\* the output blocks that come from the i-th input block
outputs_of(i) == {o \in {output[k] : k \in 1..Len(output)} : o.type = input[i].type}

\* C6: render_message_template never mutates its input: the caller's list,
\* its blocks, their buttons and status mappings have after a call, returned
\* or raised, the values they had before it.
C6_InputNotMutated ==
    [][value(heap', message_template') = value(heap, message_template)]_vars

\* a call returned a block whose title and button were rendered: they differ
\* from the template's
C6_Witness ==
    /\ returned
    /\ \E i \in 1..Len(input) : \E o \in outputs_of(i) :
          /\ o.buttons # {} /\ o.buttons # input[i].buttons
          /\ o.context # input[i].context

\* the title_link of the i-th input block is a template that renders
well_formed(t) == t # NoValue /\ ~jinja_error(t)

\* the title_link template of the i-th input block resolves to the empty
\* string or to "None"
LinkUnresolved(i) ==
    /\ well_formed(input[i].title_link)
    /\ jinja_render(input[i].title_link, kwargs) \in {<<>>, str_None}

\* C7 as claimed: every input block whose title_link template resolves to the
\* empty string or to "None" is absent from the output, whose length is the
\* input's minus the number of such blocks.
C7_UnresolvedLinkDropped ==
    returned =>
        /\ \A i \in 1..Len(input) : LinkUnresolved(i) => outputs_of(i) = {}
        /\ Len(output) = Len(input) - Cardinality({i \in 1..Len(input) : LinkUnresolved(i)})

\* C7, amended: every input block whose title_link is a non-empty template
\* that resolves to the empty string or to "None" is absent from the output,
\* whose length is the input's minus the number of such blocks.
C7_NonEmptyUnresolvedLinkDropped ==
    returned =>
        /\ \A i \in 1..Len(input) :
              (LinkUnresolved(i) /\ input[i].title_link # <<>>) => outputs_of(i) = {}
        /\ Len(output) = Len(input)
              - Cardinality({i \in 1..Len(input) :
                                LinkUnresolved(i) /\ input[i].title_link # <<>>})

\* a call with a None link returned some blocks and dropped one
C7_Witness ==
    /\ returned
    /\ k_url \in DOMAIN kwargs /\ kwargs[k_url] = NoValue
    /\ Len(output) >= 1
    /\ \E i \in 1..Len(input) : LinkUnresolved(i) /\ input[i].title_link # <<>>

\* the text of the i-th input block renders to more than TextLimit characters
LongText(i) ==
    /\ truthy(input[i].text)
    /\ well_formed(input[i].text)
    /\ Len(jinja_render(input[i].text, kwargs)) > TextLimit

\* the i-th input block has a status_mapping with entries
Mapped(i) == input[i].status_mapping \notin {{}, {<<>>}}

CutText(i, o) ==
    /\ Len(o.text) = TextLimit
    /\ o.text = SubSeq(jinja_render(input[i].text, kwargs), 1, TextLimit)

\* C8 as claimed: the output block of every block whose text renders to more
\* than 2500 characters has the first 2500 characters of the rendering as text.
C8_LongTextCut ==
    returned =>
        \A i \in 1..Len(input) : LongText(i) => \A o \in outputs_of(i) : CutText(i, o)

\* C8, amended: the output block of every block without status_mapping
\* entries whose text renders to more than 2500 characters has the first 2500
\* characters of the rendering as text.
C8_LongTextCutUnlessMapped ==
    returned =>
        \A i \in 1..Len(input) :
            (LongText(i) /\ ~Mapped(i)) => \A o \in outputs_of(i) : CutText(i, o)

\* a call returned a block whose text was cut, the text of a template with
\* characters before the long description
C8_Witness ==
    /\ returned
    /\ \E i \in 1..Len(input) :
          /\ LongText(i) /\ ~Mapped(i)
          /\ outputs_of(i) # {}
          /\ Len(jinja_render(input[i].text, kwargs)) > TextLimit + 1

\* C9: every block of the output has a text of at most 2500 characters, also
\* when the text comes from a status_mapping.
C9_TextWithinLimit ==
    returned =>
        \A k \in 1..Len(output) :
            output[k].text # NoValue => Len(output[k].text) <= TextLimit

\* the context's status is a key of the i-th block's status_mapping
StatusKnown(i) ==
    /\ k_status \in DOMAIN kwargs
    /\ \E m \in input[i].status_mapping : kwargs[k_status] \in DOMAIN m

MappedText(i, o) == \E m \in input[i].status_mapping : o.text = m[kwargs[k_status]]

called == returned \/ rendered.raised # ""

\* C10 as claimed: the output text of a block that has a status_mapping is
\* status_mapping[context["status"]]; when the status is not a key of the
\* mapping, the call fails with a lookup error and returns nothing.
C10_StatusMapped ==
    called =>
        \A i \in 1..Len(input) :
            input[i].status_mapping # {} =>
                IF StatusKnown(i)
                THEN returned => \A o \in outputs_of(i) : MappedText(i, o)
                ELSE ~returned /\ rendered.raised = "KeyError"

\* no template of the input is malformed
AllWellFormed ==
    \A i \in 1..Len(input) :
        /\ \A f \in {"header", "title", "title_link", "text", "datetime", "context"} :
              input[i][f] = NoValue \/ ~jinja_error(input[i][f])
        /\ \A bs \in input[i].buttons : \A j \in 1..Len(bs) :
              \A f \in {"button_text", "button_value", "button_action", "button_url"} :
                  bs[j][f] = NoValue \/ ~jinja_error(bs[j][f])

\* the i-th input block is skipped for its title_link
LinkSkipped(i) == LinkUnresolved(i) /\ input[i].title_link # <<>>

\* C10, amended: the output text of a block that has status_mapping entries
\* and is not skipped for its title_link is status_mapping[context["status"]];
\* when the status is not a key of the mapping, the call raises and returns
\* nothing, and what it raises is the lookup's KeyError when every template is
\* well formed.
C10_StatusMappedIfReached ==
    called =>
        \A i \in 1..Len(input) :
            (Mapped(i) /\ ~LinkSkipped(i)) =>
                IF StatusKnown(i)
                THEN returned => \A o \in outputs_of(i) : MappedText(i, o)
                ELSE /\ ~returned
                     /\ AllWellFormed => rendered.raised = "KeyError"

\* a call with a status that the mapping of a block reached does not have
\* raised KeyError, the buttons of the template being complete
C10_Witness ==
    /\ rendered.raised = "KeyError"
    /\ k_status \in DOMAIN kwargs /\ kwargs[k_status] = s_new
    /\ \E i \in 1..Len(input) : Mapped(i) /\ ~LinkSkipped(i) /\ ~StatusKnown(i)
    /\ \A i \in 1..Len(input) : \A bs \in input[i].buttons :
          \A j \in 1..Len(bs) : bs[j].button_text # NoValue

\* the position in the input of an output block, from its "type"
position(o) == o.type[2]

\* the input blocks that are not skipped for their title_link, in input order
kept == SelectSeq([i \in 1..Len(input) |-> i], LAMBDA i : ~LinkSkipped(i))

\* C11: the output of render_message_template holds the renderings of the
\* input blocks that are not dropped, in the input's order, none twice.
C11_OrderPreserved ==
    returned =>
        /\ [k \in 1..Len(output) |-> position(output[k])] = kept
        /\ \A k \in 1..Len(output) :
              LET i == position(output[k])
              IN  /\ i \in 1..Len(input)
                  /\ truthy(input[i].title) =>
                         output[k].title = jinja_render(input[i].title, kwargs)

\* a call returned two different blocks of an input whose blocks differ
C11_Witness ==
    /\ returned
    /\ Len(output) = 2
    /\ [input[1] EXCEPT !.type = ""] # [input[2] EXCEPT !.type = ""]
    /\ output[1].title # output[2].title

\* render(render(b, ctx), {}): the caller renders the list it got with an
\* empty context
again == render_message_template(heap, rendered.data, <<>>)

\* C12 as claimed: whenever a render call returns, rendering its result with an
\* empty context returns too, and returns blocks equal to that result.
C12_RenderIdempotent ==
    returned => /\ again.raised = ""
                /\ value(again.h, again.data) = output

\* a string field that is text only: no expression, no trailing newline
literal(v) == v = NoValue \/ (opens(v) = {} /\ tail_text(v) = v)

\* every string field of the output, those of its buttons included, is literal
OutputLiteral ==
    \A k \in 1..Len(output) :
        /\ \A f \in {"header", "title", "title_link", "text", "datetime", "context"} :
              literal(output[k][f])
        /\ \A bs \in output[k].buttons : \A j \in 1..Len(bs) :
              \A f \in {"button_text", "button_value", "button_action", "button_url"} :
                  literal(bs[j][f])

\* no block of the output has status_mapping entries
OutputUnmapped == \A k \in 1..Len(output) : output[k].status_mapping \in {{}, {<<>>}}

\* C12, amended: whenever a render call returns blocks without status_mapping
\* entries whose string fields hold no template expression and end in no
\* newline, rendering that result with an empty context returns blocks equal
\* to it.
C12_RenderIdempotentOnLiteral ==
    (returned /\ OutputLiteral /\ OutputUnmapped) =>
        /\ again.raised = ""
        /\ value(again.h, again.data) = output

\* a call returned two literal blocks without mapping entries, one with a text
\* that was cut and one with a button
C12_Witness ==
    /\ returned /\ OutputLiteral /\ OutputUnmapped
    /\ Len(output) = 2
    /\ \E k \in 1..2 : output[k].text # NoValue /\ Len(output[k].text) = TextLimit
    /\ \E k \in 1..2 : output[k].buttons # {}

-----------------------------------------------------------------------------
(* Further claims about the participant service. *)

\* the step is a get_or_create call that returns a participant found by its
\* query: one that was in the table before the call
ReturnsExisting ==
    /\ last'.op = "get_or_create" /\ last'.raised = ""
    /\ last'.result \in DOMAIN participants

\* one active role record per entry of roles
active_records(roles) == [i \in 1..Len(roles) |-> [role |-> roles[i], renounced_at |-> None]]

\* C13: a get_or_create call that finds a participant appends one new active
\* role record per entry of its roles, in order, whatever roles the
\* participant holds already; n calls with one role add n records of it.
C13_RolesAppendedNotDeduplicated ==
    [][ReturnsExisting =>
          participants'[last'.result].participant_roles
              = participants[last'.result].participant_roles
                    \o active_records(last'.participant_roles)]_vars

\* a participant created as commander has been found by two more calls with
\* the role commander: it holds three active commander records
C13_Witness ==
    /\ last.op = "get_or_create" /\ last.raised = ""
    /\ last.result \in DOMAIN participants
    /\ participants[last.result].incident_id = last.incident_id
    /\ participants[last.result].participant_roles
           = active_records(<<"commander", "commander", "commander">>)

\* the step is a get_or_create call whose query finds no participant
FindsNone ==
    /\ last'.op = "get_or_create"
    /\ matching(participants, last'.incident_id, last'.individual_id) = {}

\* the step persists a new participant and returns it
PersistsNew ==
    /\ last'.raised = ""
    /\ last'.result \notin DOMAIN participants
    /\ DOMAIN participants' = DOMAIN participants \cup {last'.result}

\* C14: a get_or_create call that creates a participant while the contact
\* information is unavailable (no active plugin, the lookup returning nothing,
\* or a result without the fields) succeeds and persists the participant with
\* team, department and location "Unknown".
C14_UnknownWhenUnavailable ==
    [][(FindsNone /\ last'.plugin \in {"absent", "nothing", "empty"}) =>
          /\ PersistsNew
          /\ participants'[last'.result].team = "Unknown"
          /\ participants'[last'.result].department = "Unknown"
          /\ participants'[last'.result].location = "Unknown"]_vars

\* the new participant has one role record per entry of the call's roles, in
\* order, and the service of the call's service_id, or none without one
NewAsGiven ==
    /\ participants'[last'.result].participant_roles
           = active_records(last'.participant_roles)
    /\ participants'[last'.result].service_id
           = (IF last'.service_id # None THEN service_service_get(last'.service_id)
              ELSE None)

\* C15: a get_or_create call whose query finds no participant persists a new
\* participant with exactly one role record per entry of roles, in order, and
\* with the service of service_id when one was supplied, none otherwise.
C15_NewParticipantAsGiven ==
    [][FindsNone => (PersistsNew /\ NewAsGiven)]_vars

\* C16: update overwrites exactly the fields set in the update specification:
\* after the call each of them has the specification's value and every other
\* field of the participant has the value it had before.
C16_UpdateExactlyGivenFields ==
    [][(last'.op = "update" /\ last'.raised = "") =>
          /\ last'.result \in DOMAIN participants
          /\ \A field \in DOMAIN last'.update_data :
                participants'[last'.result][field] = last'.update_data[field]
          /\ \A field \in DOMAIN participants[last'.result] \ DOMAIN last'.update_data :
                participants'[last'.result][field] = participants[last'.result][field]]_vars

\* an update of team and location has just changed them on a participant that
\* has a service, a role and its former department
C16_Witness ==
    /\ last.op = "update"
    /\ DOMAIN last.update_data = {"team", "location"}
    /\ last.result \in DOMAIN participants
    /\ participants[last.result].team = "Moved"
    /\ participants[last.result].location = "Moved"
    /\ participants[last.result].department = "Unknown"
    /\ participants[last.result].service_id = 2
    /\ participants[last.result].participant_roles = active_records(<<"observer">>)

Lookups == {"get", "get_by_incident_id_and_role", "get_by_incident_id_and_email",
            "get_by_incident_id_and_service_id"}

\* C17: a 'get' lookup returns a participant or nothing and never raises, in
\* every table the service calls can leave, those included where several
\* participants of an incident hold the same active role or the same service.
C17_LookupsNeverRaise ==
    last.op \in Lookups =>
        /\ last.raised = ""
        /\ last.result \in DOMAIN participants \cup {None}

\* C18: delete removes the participant with the given identifier, and a get
\* for that identifier returns nothing from then on; without a participant of
\* that identifier delete fails with an error and the participants stored are
\* unchanged.
C18_DeleteRemovesOrFails ==
    [][/\ last'.op = "delete" =>
             IF last'.participant_id \in DOMAIN participants
             THEN /\ last'.raised = ""
                  /\ DOMAIN participants' = DOMAIN participants \ {last'.participant_id}
                  /\ \A p \in DOMAIN participants' : participants'[p] = participants[p]
             ELSE /\ last'.raised # ""
                  /\ participants' = participants
       /\ \A id \in 1..(next_id - 1) :
             id \notin DOMAIN participants => id \notin DOMAIN participants'
       /\ last'.op = "get" =>
             last'.result = (IF last'.participant_id \in DOMAIN participants'
                             THEN last'.participant_id ELSE None)]_vars

\* a participant that was deleted has been deleted again: the call raised, and
\* the other participant is still stored
C18_Witness ==
    /\ last.op = "delete"
    /\ last.raised = "UnmappedInstanceError"
    /\ last.participant_id < next_id
    /\ last.participant_id \notin DOMAIN participants
    /\ participants # <<>>

\* the step is a get_or_create call that found a participant and then raised
FailsPartWay ==
    /\ last'.op = "get_or_create" /\ last'.raised = "Exception"
    /\ last'.participant_id \in DOMAIN participants

\* C19: a get_or_create call that fails part-way on an existing participant
\* commits none of its role appends: the call leaves the stored participants
\* as they were, and what it left uncommitted is not stored later either.
C19_FailedCallCommitsNothing ==
    [][/\ FailsPartWay => participants' = participants
       /\ session # NoPending => participants' = participants]_vars

\* C20: a get_or_create call that finds a participant changes nothing but that
\* participant's roles and service: its team, department, location, incident
\* and individual stay, no other participant changes, none is added, and the
\* incident, individual and contact plugin collaborators are not consulted.
C20_FoundChangesRolesAndServiceOnly ==
    [][ReturnsExisting =>
          /\ \A field \in {"team", "department", "location", "incident_id",
                            "individual_contact_id"} :
                participants'[last'.result][field] = participants[last'.result][field]
          /\ DOMAIN participants' = DOMAIN participants
          /\ \A p \in DOMAIN participants \ {last'.result} :
                participants'[p] = participants[p]
          /\ next_id' = next_id
          /\ last'.collaborators = {}]_vars

\* a call has found a participant of team Security and given it a second
\* role, while the table holds another participant
C20_Witness ==
    /\ last.op = "get_or_create" /\ last.raised = ""
    /\ last.result \in DOMAIN participants
    /\ participants[last.result].incident_id = last.incident_id
    /\ participants[last.result].individual_contact_id = last.individual_id
    /\ Len(participants[last.result].participant_roles) = 2
    /\ participants[last.result].team = "Security"
    /\ last.collaborators = {}
    /\ Cardinality(DOMAIN participants) = 2

=============================================================================
